---- MODULE Spec2Model ----
(***************************************************************************)
(* The pointer-gesture recognizer useMouseEvents (src/unnamed/part_000,    *)
(* lines 319-685) as a state machine, and after it the smaller hooks of    *)
(* the library, each as the state machine of a component that calls it.    *)
(*                                                                         *)
(* One action is one task of the host's event loop: a native event         *)
(* handler or a timeout callback, together with the renders and effect     *)
(* passes its setState call causes.  The updates made by the effects of    *)
(* one render are applied together and cause the next render; the passes   *)
(* repeat until a render changes no dependency (Cascade).  Effects run in  *)
(* the order in which the hooks are declared.                              *)
(*                                                                         *)
(* Time passes in ticks.  Every time is kept relative to the present: a    *)
(* time stamp read with new Date() is kept as its age, 0 when read and one *)
(* more with every tick (up to MaxAge, beyond which nothing in the code    *)
(* or in the properties tells two ages apart); setTimeout(f, d) is kept    *)
(* as the ticks left until f is due.  A timeout callback never runs before *)
(* it is due and runs at most MaxLate ticks after; tasks that fall in the  *)
(* same tick run in any order.                                             *)
(*                                                                         *)
(* Spec is the recognizer driven by a mouse: every event is a mouse event, *)
(* and a move event is one whose position differs from the pointer's last  *)
(* known one.  SpecDetach is Spec with the component unmounted at any      *)
(* moment: from then on setState is without effect.  SpecTouch is the      *)
(* recognizer driven by a touch screen, a touchstart arriving with one or  *)
(* more touch points, and SpecMixed the recognizer driven by a mouse and a *)
(* touch screen at once.  SpecRender is Spec with the component rendered   *)
(* again with new callbacks at any moment.  SpecSetup is the call of the   *)
(* hook itself, for any config and targets: the options the render puts    *)
(* in effect and the targets effect that runs after it.  SpecDebounce,     *)
(* SpecPrevious, SpecDependent, SpecUpdated, SpecAsync and SpecForce are   *)
(* useDebounce, usePrevious, useDependentState,                            *)
(* useValueUpdatedWithPrevious, useAsyncState and useForceUpdate; in each  *)
(* of them the other hooks are mounted and left alone.                     *)
(*                                                                         *)
(* The callbacks that only receive an emission (onSingleClickCallback,     *)
(* onMouseHoldEndCallback, onMouseDownCallback, ...) are taken as          *)
(* supplied; the ones that steer the code are configuration (cfg).  The    *)
(* nativeEvent copies kept in mouseHold, mouseDrag, mouseDragHold and      *)
(* click are only handed to callbacks and are left out.                    *)
(***************************************************************************)
EXTENDS Integers, Sequences, FiniteSets, TLC

\* ---------------------------------------------------------------- bounds
MaxLate   == 1      \* a timeout callback runs at most this many ticks late
MaxTimers == 2      \* hold timeouts pending at once
MaxCount  == 3      \* click.count is not driven beyond this
MaxTouches == 2     \* touch points on the surface at a touchstart
MaxRenders == 1     \* renders of the component that supply new callbacks
MaxTargets == 2     \* length of a targets array
MaxChanges == 3     \* renders of useDebounce with a new value or delay
MaxCalls == 128     \* calls of the function useForceUpdate returns
MaxPromises == 3    \* calls of setAsyncState
MaxUpdates == 5     \* later renders of a component that uses another hook

\* ------------------------------------------------- configuration values
doubleClickDuration == 2
mouseHoldDuration   == 3
dragHoldDuration    == 2

\* ages stop growing here
MaxAge == mouseHoldDuration
ClickAge == doubleClickDuration + 1

\* ------------------------------------------------------------- value sets
Null      == -1     \* JavaScript null
Undefined == -2     \* JavaScript undefined (a property the event lacks)

Kinds    == {"mouse", "touch"}
Targets  == {"A"}                 \* the elements the hook is attached to
Elements == {"A", "B"}            \* where a pointer can come up
Coords   == {<<0, 0>>, <<0, 1>>, <<1, 1>>}     \* clientX, clientY of a move
DownCoords == {<<1, 1>>}                       \* clientX, clientY of a down
UpCoords   == {<<0, 1>>, <<1, 1>>}             \* clientX, clientY of an up

\* preventDragIfHeld is read only once a hold began while move events are
\* listened to, so it is varied only where both can happen
Configs ==
  { c \in [ onDoubleClickCallback : BOOLEAN,
            onMouseHoldCallback   : BOOLEAN,
            listenForMoveEvents   : BOOLEAN,
            preventDragIfHeld     : BOOLEAN ] :
      c.preventDragIfHeld => (c.onMouseHoldCallback /\ c.listenForMoveEvents) }

\* ------------------------------------------------ the hook's arguments
\* config: given tells an object from undefined; a duration is a number or
\* Undefined, a flag is "true", "false" or "undefined"
DurationInputs == {Undefined, 0, 100}
FlagInputs     == {"undefined", "false", "true"}

NoConfig ==
  [ given |-> FALSE, doubleClickDuration |-> Undefined, mouseHoldDuration |-> Undefined,
    dragHoldDuration |-> Undefined, preventDragIfHeld |-> "undefined",
    preventClickIfPosChange |-> "undefined" ]

ConfigInputs ==
  {NoConfig} \cup
  [ given : {TRUE}, doubleClickDuration : DurationInputs, mouseHoldDuration : DurationInputs,
    dragHoldDuration : DurationInputs, preventDragIfHeld : FlagInputs,
    preventClickIfPosChange : FlagInputs ]

\* One target: the id of an element, a ref, or neither (undefined, null);
\* element is what the id or the ref leads to, "none" when to nothing
Nothing == [form |-> "undefined", element |-> "none"]

TargetInputs == [form : {"id", "ref"}, element : Targets \cup {"none"}] \cup {Nothing}

\* targets: given tells a value from undefined, array an array from a
\* single target, kept as an array of one as the effect makes it
NoTargets == [given |-> FALSE, array |-> FALSE, items |-> << >>]

TargetsInputs ==
  {NoTargets}
  \cup { [given |-> TRUE, array |-> FALSE, items |-> << t >>] : t \in TargetInputs \ {Nothing} }
  \cup { [given |-> TRUE, array |-> TRUE, items |-> q] :
           q \in UNION { [1..n -> TargetInputs] : n \in 0..MaxTargets } }

Arguments ==
  [ config : ConfigInputs, onDragEndCallback : BOOLEAN, targets : TargetsInputs ]

\* the arguments of the hook whose options are c, attached to Targets
ModelArguments(c) ==
  [ config |-> [ given |-> TRUE, doubleClickDuration |-> doubleClickDuration,
                 mouseHoldDuration |-> mouseHoldDuration,
                 dragHoldDuration |-> dragHoldDuration,
                 preventDragIfHeld |-> IF c.preventDragIfHeld THEN "true" ELSE "undefined",
                 preventClickIfPosChange |-> "undefined" ],
    onDragEndCallback |-> c.listenForMoveEvents,
    targets |-> [ given |-> TRUE, array |-> TRUE,
                  items |-> << [form |-> "ref", element |-> CHOOSE t \in Targets : TRUE] >> ] ]

NoEvent == [target |-> "none", clientX |-> Null, clientY |-> Null]

\* a JavaScript value used as a condition
Truthy(v) == v > 0

\* new Date()
Now == 0

\* Elapsed with the later time stamp taken one tick late
ElapsedLate(earlier, later) == IF earlier = Null THEN MaxAge ELSE earlier - later + 1

\* later - earlier for two time stamps; a null earlier one counts as 0,
\* which leaves the whole of the later one
Elapsed(earlier, later) == IF earlier = Null THEN MaxAge ELSE earlier - later

\* a time stamp one tick on
Older(t, cap) == IF t = Null \/ t >= cap THEN t ELSE t + 1

VARIABLES
  cfg,                  \* the callbacks and options the hook was given
  args,                 \* config, targets and onDragEndCallback as the hook got them
  setup,                \* what the render made of them: the options in effect and
                        \* the outcome of the targets effect
  eventCallbacks,       \* which eventCallbacks object the latest render was given:
                        \* 0 the first one, one more with every new one
  state,                \* the useState value
  eventTypes,           \* eventTypes.current: "none", "mouse" or "touch"
  mouseHoldTimeouts,    \* pending hold timeouts; ref marks mouseHoldTimeoutRef.current
  dragHoldTimeouts,     \* pending drag hold timeouts; ref marks dragHoldTimeoutRef.current
  doubleClickTimeouts,  \* pending double click timeouts; ref marks doubleClickTimoutRef.current
  moveListeners,        \* event kinds onMouseMoveRef.current listens to on document
  upListeners,          \* event kinds onMouseUpRef.current listens to on document
  leaveListeners,       \* targets onMouseLeaveRef.current listens to for mouseleave
  mounted,              \* the component that uses the hook is mounted
  lastOp,               \* the task that ran last
  emitted,              \* the callbacks that task invoked, in order
  calledWith,           \* the eventCallbacks object they were taken from, Null
                        \* when none was invoked
  hist                  \* what the properties remember of the run (read by no action):
                        \*   left   onMouseLeave ran since the session began
                        \*   again  a down event arrived during the session
                        \*   drags  the onDragStart, onDrag and onDragEnd calls since
                        \*          the session began, a run of onDrag calls kept as one
                        \*   qual   age of the last up that counted as a click, Null when
                        \*          older than doubleClickDuration, followed by a move,
                        \*          or already answered by a double click

\* The other hooks of the library, each with the component that uses it
VARIABLES
  debounce,             \* useDebounce
  previous,             \* usePrevious
  dependent,            \* useDependentState
  updated,              \* useValuesUpdated, useValueUpdatedWithPrevious
  async,                \* useAsyncState
  force                 \* useForceUpdate

mouseVars == << cfg, args, setup, eventCallbacks, state, eventTypes, mouseHoldTimeouts,
                dragHoldTimeouts, doubleClickTimeouts, moveListeners, upListeners,
                leaveListeners, mounted, lastOp, emitted, calledWith, hist >>

hookVars == << debounce, previous, dependent, updated, async, force >>

vars == << mouseVars, hookVars >>

\* config.preventClickIfPosChange is left unset and the drag callbacks are
\* supplied all together, with listenForMoveEvents, or not at all
preventClickIfPosChange == cfg.listenForMoveEvents

\* ----------------------------------------------------- options in effect
\* config && config[name], for a duration and for a flag
NumberOf(config, name) == IF config.given THEN config[name] ELSE Undefined
FlagOf(config, name)   == IF config.given THEN config[name] ELSE "undefined"

\* v || default
OrElse(v, default) == IF Truthy(v) THEN v ELSE default

\* the constants the render computes from config, durations in milliseconds
EffectiveConfig(config, onDragEndCallback) ==
  [ doubleClickDuration |-> OrElse(NumberOf(config, "doubleClickDuration"), 250),
    mouseHoldDuration   |-> OrElse(NumberOf(config, "mouseHoldDuration"), 750),
    dragHoldDuration    |-> OrElse(NumberOf(config, "dragHoldDuration"), 750),
    preventDragIfHeld   |-> IF FlagOf(config, "preventDragIfHeld") = "true"
                            THEN "true" ELSE "false",
    preventClickIfPosChange |->
      IF FlagOf(config, "preventClickIfPosChange") = "true" THEN "true"
      ELSE IF onDragEndCallback THEN "true" ELSE "undefined" ]

\* ------------------------------------------------------ the targets effect
\* r is the outcome so far:
\*   reported  console.error was called
\*   threw     the effect ended in an exception
\*   attached  the elements this run gave its down handler
\* addEventListeners(target): the id is looked up, anything else is taken
\* for a ref and its current read, which throws when there is no object
addEventListeners(target, r) ==
  IF target.form = "undefined" THEN [r EXCEPT !.threw = TRUE]
  ELSE IF target.element # "none"
  THEN [r EXCEPT !.attached = @ \cup {target.element}]
  ELSE r

\* targets.forEach(addEventListeners), ended by the first exception
RECURSIVE ForEach(_, _)
ForEach(items, r) ==
  IF items = << >> \/ r.threw THEN r
  ELSE ForEach(Tail(items), addEventListeners(Head(items), r))

TargetsEffect(targets) ==
  LET r == [reported |-> FALSE, threw |-> FALSE, attached |-> {}]
  IN IF targets.given THEN ForEach(targets.items, r)
     ELSE [r EXCEPT !.reported = TRUE]

NotRendered ==
  [ rendered |-> FALSE, config |-> EffectiveConfig(NoConfig, FALSE),
    reported |-> FALSE, threw |-> FALSE, attached |-> {}, listening |-> {} ]

\* a render with arguments a and the run of the targets effect after it;
\* listening are the elements that had a down handler before
Render(a, listening) ==
  LET r == TargetsEffect(a.targets)
  IN [ rendered |-> TRUE,
       config |-> EffectiveConfig(a.config, a.onDragEndCallback),
       reported |-> r.reported, threw |-> r.threw, attached |-> r.attached,
       listening |-> listening \cup r.attached ]

\* ------------------------------------------------------------- timeouts
SetTimeout(q, t) ==
  Append([i \in DOMAIN q |-> [q[i] EXCEPT !.ref = FALSE]], [t EXCEPT !.ref = TRUE])

ClearTimeout(q) == SelectSeq(q, LAMBDA t : ~t.ref)

RemoveAt(q, i) == SubSeq(q, 1, i - 1) \o SubSeq(q, i + 1, Len(q))

Range(q) == {q[i] : i \in DOMAIN q}

\* the drag calls of out added to log, a run of onDrag calls kept as one
RECURSIVE DragCalls(_, _)
DragCalls(log, out) ==
  IF out = << >> THEN log
  ELSE LET c == Head(out)
           keep == /\ c \in {"onDragStart", "onDrag", "onDragEnd"}
                   /\ ~(c = "onDrag" /\ log # << >> /\ log[Len(log)] = "onDrag")
       IN DragCalls(IF keep THEN Append(log, c) ELSE log, Tail(out))

\* --------------------------------------------------------- initial state
InitialState ==
  [ mouseDown     |-> [isDown |-> FALSE, nativeEvent |-> NoEvent, time |-> Null],
    mouseHold     |-> [isHeld |-> FALSE],
    mouseDrag     |-> [isDragged |-> FALSE, dragX |-> Null, dragY |-> Null],
    mouseDragHold |-> [isDragHeld |-> FALSE],
    click         |-> [count |-> 0, time |-> Null] ]

\* the reset of click with the count left at 1
ClickResetToOne == [count |-> 1, time |-> Null]

ClickReset == [count |-> 0, time |-> Null]

\* The part of the program the effects read and write:
\*   st        the state the next render will see
\*   hold, dragHold, dbl   the three timeout queues
\*   move, up, leave       the listeners
\*   out       the callbacks invoked so far
\*   by        the eventCallbacks object they are taken from: the effects of
\*             a render invoke the callbacks that render was given
World(st, out) ==
  [ st |-> st, hold |-> mouseHoldTimeouts, dragHold |-> dragHoldTimeouts,
    dbl |-> doubleClickTimeouts, move |-> moveListeners, up |-> upListeners,
    leave |-> leaveListeners, out |-> out, by |-> eventCallbacks ]

\* ----------------------------------------------------------- the effects
\* Each effect gets the state of the previous render (old), the state of
\* the render it belongs to (cur), eventTypes.current (et) and the world.

\* isClicked without the test of isHeld
IsClickedThoughHeld(old, cur) ==
  /\ ~cur.mouseDrag.isDragged
  /\ old.mouseDown.nativeEvent.target = cur.mouseDown.nativeEvent.target

\* isClicked without the test of the target
IsClickedAnyTarget(old, cur) ==
  /\ ~cur.mouseHold.isHeld
  /\ ~cur.mouseDrag.isDragged

\* isClicked of the up branch of "isDown updated"
IsClicked(old, cur) ==
  LET clickedSameTarget ==
        old.mouseDown.nativeEvent.target = cur.mouseDown.nativeEvent.target
  IN /\ ~cur.mouseHold.isHeld
     /\ ~cur.mouseDrag.isDragged
     /\ clickedSameTarget

\* "isDown updated" that sets the hold timeout whether or not there is a
\* hold callback
IsDownUpdatedAlwaysHolds(old, cur, et, w) ==
  IF cur.mouseDown.isDown = old.mouseDown.isDown THEN w
  ELSE IF cur.mouseDown.isDown
  THEN LET w1 == [w EXCEPT !.out  = Append(@, "onMouseDown"),
                           !.move = IF cfg.listenForMoveEvents THEN @ \cup {et} ELSE @,
                           !.up   = @ \cup {et}]
       IN [w1 EXCEPT !.leave = @ \cup {cur.mouseDown.nativeEvent.target},
                     !.hold  = SetTimeout(@, [left |-> mouseHoldDuration,
                                              ref |-> TRUE,
                                              target |-> cur.mouseDown.nativeEvent.target])]
  ELSE LET isClicked == IsClicked(old, cur)
       IN [w EXCEPT !.out  = Append(@, "onMouseUp"),
                    !.st   = [@ EXCEPT !.mouseHold     = [isHeld |-> FALSE],
                                       !.mouseDrag     = [isDragged |-> FALSE, dragX |-> Null, dragY |-> Null],
                                       !.mouseDragHold = [isDragHeld |-> FALSE],
                                       !.click         = [count |-> @.count + (IF isClicked THEN 1 ELSE 0),
                                                          time  |-> cur.mouseDown.time]],
                    !.move = @ \ {et},
                    !.up   = @ \ {et}]

\* "isDown updated" that listens for move events whether or not there is a
\* drag callback
IsDownUpdatedAlwaysListens(old, cur, et, w) ==
  IF cur.mouseDown.isDown = old.mouseDown.isDown THEN w
  ELSE IF cur.mouseDown.isDown
  THEN LET w1 == [w EXCEPT !.out  = Append(@, "onMouseDown"),
                           !.move = @ \cup {et},
                           !.up   = @ \cup {et}]
       IN IF cfg.onMouseHoldCallback
          THEN [w1 EXCEPT !.leave = @ \cup {cur.mouseDown.nativeEvent.target},
                          !.hold  = SetTimeout(@, [left |-> mouseHoldDuration,
                                                   ref |-> TRUE,
                                                   target |-> cur.mouseDown.nativeEvent.target])]
          ELSE w1
  ELSE LET isClicked == IsClicked(old, cur)
       IN [w EXCEPT !.out  = Append(@, "onMouseUp"),
                    !.st   = [@ EXCEPT !.mouseHold     = [isHeld |-> FALSE],
                                       !.mouseDrag     = [isDragged |-> FALSE, dragX |-> Null, dragY |-> Null],
                                       !.mouseDragHold = [isDragHeld |-> FALSE],
                                       !.click         = [count |-> @.count + (IF isClicked THEN 1 ELSE 0),
                                                          time  |-> cur.mouseDown.time]],
                    !.move = @ \ {et},
                    !.up   = @ \ {et}]

\* "isDown updated"
IsDownUpdated(old, cur, et, w) ==
  IF cur.mouseDown.isDown = old.mouseDown.isDown THEN w
  ELSE IF cur.mouseDown.isDown
  THEN LET w1 == [w EXCEPT !.out  = Append(@, "onMouseDown"),
                           !.move = IF cfg.listenForMoveEvents THEN @ \cup {et} ELSE @,
                           !.up   = @ \cup {et}]
       IN IF cfg.onMouseHoldCallback
          THEN [w1 EXCEPT !.leave = @ \cup {cur.mouseDown.nativeEvent.target},
                          !.hold  = SetTimeout(@, [left |-> mouseHoldDuration,
                                                   ref |-> TRUE,
                                                   target |-> cur.mouseDown.nativeEvent.target])]
          ELSE w1
  ELSE LET isClicked == IsClicked(old, cur)
       IN [w EXCEPT !.out  = Append(@, "onMouseUp"),
                    !.st   = [@ EXCEPT !.mouseHold     = [isHeld |-> FALSE],
                                       !.mouseDrag     = [isDragged |-> FALSE, dragX |-> Null, dragY |-> Null],
                                       !.mouseDragHold = [isDragHeld |-> FALSE],
                                       !.click         = [count |-> @.count + (IF isClicked THEN 1 ELSE 0),
                                                          time  |-> cur.mouseDown.time]],
                    !.move = @ \ {et},
                    !.up   = @ \ {et}]

\* "click count update" that waits for a second click whether or not there
\* is a double click callback
ClickCountUpdatedAlwaysWaits(old, cur, w) ==
  IF cur.click.count = old.click.count THEN w
  ELSE LET w1 == IF cur.click.count > 0 THEN [w EXCEPT !.hold = ClearTimeout(@)] ELSE w
       IN CASE cur.click.count = 1 ->
                 [w1 EXCEPT !.dbl = SetTimeout(@, [left |-> doubleClickDuration, ref |-> TRUE,
                                                by |-> w.by])]
            [] cur.click.count = 2 ->
                 IF Elapsed(old.click.time, cur.click.time) <= doubleClickDuration
                 THEN [w1 EXCEPT !.dbl = ClearTimeout(@),
                                 !.out = Append(@, "onDoubleClick"),
                                 !.st.click = ClickReset]
                 ELSE w1
            [] OTHER -> w1

\* "click count update"
ClickCountUpdated(old, cur, w) ==
  IF cur.click.count = old.click.count THEN w
  ELSE LET w1 == IF cur.click.count > 0 THEN [w EXCEPT !.hold = ClearTimeout(@)] ELSE w
       IN CASE cur.click.count = 1 ->
                 IF cfg.onDoubleClickCallback
                 THEN [w1 EXCEPT !.dbl = SetTimeout(@, [left |-> doubleClickDuration, ref |-> TRUE,
                                                by |-> w.by])]
                 ELSE [w1 EXCEPT !.out = Append(@, "onSingleClick"), !.st.click = ClickReset]
            [] cur.click.count = 2 ->
                 IF Elapsed(old.click.time, cur.click.time) <= doubleClickDuration
                 THEN [w1 EXCEPT !.dbl = ClearTimeout(@),
                                 !.out = Append(@, "onDoubleClick"),
                                 !.st.click = ClickReset]
                 ELSE w1
            [] OTHER -> w1

\* "is held update" run after every render, whether or not isHeld changed
IsHeldUpdatedEveryRender(old, cur, et, w) ==
  IF cur.mouseHold.isHeld
  THEN [w EXCEPT !.out  = Append(@, "onMouseHold"),
                 !.move = IF cfg.preventDragIfHeld THEN @ \ {et} ELSE @]
  ELSE [w EXCEPT !.out = Append(@, "onMouseHoldEnd")]

\* "is held update"
IsHeldUpdated(old, cur, et, w) ==
  IF cur.mouseHold.isHeld = old.mouseHold.isHeld THEN w
  ELSE IF cur.mouseHold.isHeld
  THEN [w EXCEPT !.out  = Append(@, "onMouseHold"),
                 !.move = IF cfg.preventDragIfHeld THEN @ \ {et} ELSE @]
  ELSE [w EXCEPT !.out = Append(@, "onMouseHoldEnd")]

\* "isDragged updated"
IsDraggedUpdated(old, cur, w) ==
  IF cur.mouseDrag.isDragged = old.mouseDrag.isDragged THEN w
  ELSE IF cur.mouseDrag.isDragged
  THEN [w EXCEPT !.hold = ClearTimeout(@), !.out = Append(@, "onDragStart")]
  ELSE [w EXCEPT !.out = Append(@, "onDragEnd")]

\* "drag positions updated" without its clearTimeout
DragPositionsUpdatedNoClear(old, cur, w) ==
  IF cur.mouseDrag.dragX = old.mouseDrag.dragX /\ cur.mouseDrag.dragY = old.mouseDrag.dragY
  THEN w
  ELSE LET w1 == [w EXCEPT !.st.mouseDragHold = [isDragHeld |-> FALSE]]
       IN IF Truthy(cur.mouseDrag.dragX) \/ Truthy(cur.mouseDrag.dragY)
          THEN [w1 EXCEPT !.out = Append(@, "onDrag"),
                          !.dragHold = SetTimeout(@, [left |-> dragHoldDuration, ref |-> TRUE])]
          ELSE w1

\* "drag positions updated"
DragPositionsUpdated(old, cur, w) ==
  IF cur.mouseDrag.dragX = old.mouseDrag.dragX /\ cur.mouseDrag.dragY = old.mouseDrag.dragY
  THEN w
  ELSE LET w1 == [w EXCEPT !.dragHold = ClearTimeout(@),
                           !.st.mouseDragHold = [isDragHeld |-> FALSE]]
       IN IF Truthy(cur.mouseDrag.dragX) \/ Truthy(cur.mouseDrag.dragY)
          THEN [w1 EXCEPT !.out = Append(@, "onDrag"),
                          !.dragHold = SetTimeout(@, [left |-> dragHoldDuration, ref |-> TRUE])]
          ELSE w1

\* "mouse drag hold updated"
DragHoldUpdated(old, cur, w) ==
  IF cur.mouseDragHold.isDragHeld = old.mouseDragHold.isDragHeld THEN w
  ELSE IF cur.mouseDragHold.isDragHeld
  THEN [w EXCEPT !.out = Append(@, "onDragHold")]
  ELSE [w EXCEPT !.out = Append(@, "onDragHoldEnd")]

\* The effects with "mouse drag hold updated" moved before "isDragged updated"
RunEffectsDragHoldFirst(old, cur, et, w) ==
  LET w1 == IsDownUpdated(old, cur, et, w)
      w2 == ClickCountUpdated(old, cur, w1)
      w3 == IsHeldUpdated(old, cur, et, w2)
      w4 == DragHoldUpdated(old, cur, w3)
      w5 == IsDraggedUpdated(old, cur, w4)
  IN DragPositionsUpdated(old, cur, w5)

\* The effects of one render, in the order of their hooks.
RunEffects(old, cur, et, w) ==
  LET w1 == IsDownUpdated(old, cur, et, w)
      w2 == ClickCountUpdated(old, cur, w1)
      w3 == IsHeldUpdated(old, cur, et, w2)
      w4 == IsDraggedUpdated(old, cur, w3)
      w5 == DragPositionsUpdated(old, cur, w4)
  IN DragHoldUpdated(old, cur, w5)

\* Render cur after old, run the effects, render again with the state they
\* set, until a render is followed by no change.
RECURSIVE Cascade(_, _, _, _)
Cascade(old, cur, et, w) ==
  LET w1 == RunEffects(old, cur, et, w)
  IN IF w1.st = cur THEN w1 ELSE Cascade(cur, w1.st, et, w1)

\* setState(update) followed by no effect: the state is set and that is all
SetStateNoEffects(new, et, w) ==
  IF mounted THEN [w EXCEPT !.st = new] ELSE w

\* setState(update) from a handler or a timeout callback; React drops the
\* update of a component that is no longer mounted
SetState(new, et, w) ==
  IF mounted THEN Cascade(state, new, et, [w EXCEPT !.st = new]) ELSE w

Commit(w, op) ==
  /\ state' = w.st
  /\ mouseHoldTimeouts' = w.hold
  /\ dragHoldTimeouts' = w.dragHold
  /\ doubleClickTimeouts' = w.dbl
  /\ moveListeners' = w.move
  /\ upListeners' = w.up
  /\ leaveListeners' = w.leave
  /\ emitted' = w.out
  /\ calledWith' = IF w.out = << >> THEN Null ELSE w.by
  /\ lastOp' = op

\* ------------------------------------------------------- native handlers
\* The event as the handler passes it on: a touch event has clientX and
\* clientY only once mergeTouchEventProperties copied them from
\* changedTouches[0].
NativeEvent(kind, target, xy, merged) ==
  IF kind = "touch" /\ ~merged
  THEN [target |-> target, clientX |-> Undefined, clientY |-> Undefined]
  ELSE [target |-> target, clientX |-> xy[1], clientY |-> xy[2]]

\* mergeTouchEventProperties reads changedTouches[0]: a mouse event has none
MergeThrows(kind, et) == et = "touch" /\ kind = "mouse"

\* the touch points of a touchstart are left unmerged and the handler returns
\* at once, with every touch point taken into account
TouchNeverDropped(kind, touches) == FALSE

\* event.touches.length > 1 in the touchstart case
TouchDropped(kind, touches) == kind = "touch" /\ touches > 1

\* lastOp tells a down event with several touch points from any other
onMouseDown(kind, touches, target, xy) ==
  /\ Len(mouseHoldTimeouts) < MaxTimers
  /\ eventTypes' = kind
  /\ IF TouchDropped(kind, touches)
     THEN /\ lastOp' = "downMulti"
          /\ emitted' = << >>
          /\ calledWith' = Null
          /\ UNCHANGED << state, mouseHoldTimeouts, dragHoldTimeouts, doubleClickTimeouts,
                          moveListeners, upListeners, leaveListeners, hist >>
     ELSE LET ev  == NativeEvent(kind, target, xy, TRUE)
              new == [state EXCEPT !.mouseDown = [isDown |-> TRUE, nativeEvent |-> ev, time |-> Now]]
          IN /\ Commit(SetState(new, kind, World(state, << >>)),
                       IF touches > 1 THEN "downMulti" ELSE "down")
             /\ hist' = IF state.mouseDown.isDown
                        THEN [hist EXCEPT !.again = TRUE]
                        ELSE [hist EXCEPT !.left = FALSE, !.again = FALSE, !.drags = << >>]
  /\ UNCHANGED << hookVars, cfg, args, setup, eventCallbacks, mounted >>

onMouseUp(kind, target, xy) ==
  /\ kind \in upListeners
  /\ state.click.count < MaxCount
  /\ IF MergeThrows(kind, eventTypes)
     THEN /\ lastOp' = "upThrew"
          /\ emitted' = << >>
          /\ calledWith' = Null
          /\ UNCHANGED << state, mouseHoldTimeouts, dragHoldTimeouts, doubleClickTimeouts,
                          moveListeners, upListeners, leaveListeners, hist >>
     ELSE LET ev  == NativeEvent(kind, target, xy, eventTypes = "touch")
              new == [state EXCEPT !.mouseDown = [isDown |-> FALSE, nativeEvent |-> ev, time |-> Now]]
              w   == SetState(new, eventTypes, World(state, << >>))
          IN /\ Commit(w, "up")
             /\ hist' = [hist EXCEPT
                          !.drags = DragCalls(@, w.out),
                          !.qual  = IF state.mouseDown.isDown /\ IsClicked(state, new)
                                    THEN (IF "onDoubleClick" \in Range(w.out) THEN Null ELSE 0)
                                    ELSE @]
  /\ UNCHANGED << hookVars, cfg, args, setup, eventCallbacks, eventTypes, mounted >>

\* where the pointer was last seen
PointerAt ==
  IF state.mouseDrag.isDragged
  THEN << state.mouseDrag.dragX, state.mouseDrag.dragY >>
  ELSE << state.mouseDown.nativeEvent.clientX, state.mouseDown.nativeEvent.clientY >>

onMouseMove(kind, xy) ==
  /\ kind \in moveListeners
  /\ xy # PointerAt
  /\ IF MergeThrows(kind, eventTypes)
     THEN /\ lastOp' = "moveThrew"
          /\ emitted' = << >>
          /\ calledWith' = Null
          /\ UNCHANGED << state, mouseHoldTimeouts, dragHoldTimeouts, doubleClickTimeouts,
                          moveListeners, upListeners, leaveListeners, hist >>
     ELSE LET ev  == NativeEvent(kind, "none", xy, eventTypes = "touch")
              new == [state EXCEPT !.mouseDrag = [isDragged |-> TRUE, dragX |-> ev.clientX, dragY |-> ev.clientY]]
              w   == SetState(new, eventTypes, World(state, << >>))
          IN /\ Commit(w, "move")
             /\ hist' = [hist EXCEPT !.drags = DragCalls(@, w.out), !.qual = Null]
  /\ UNCHANGED << hookVars, cfg, args, setup, eventCallbacks, eventTypes, mounted >>

onMouseLeave(target) ==
  /\ target \in leaveListeners
  /\ mouseHoldTimeouts' = ClearTimeout(mouseHoldTimeouts)
  /\ leaveListeners' = leaveListeners \ {target}
  /\ lastOp' = "leave"
  /\ emitted' = << >>
  /\ calledWith' = Null
  /\ hist' = [hist EXCEPT !.left = TRUE]
  /\ UNCHANGED << hookVars, cfg, args, setup, eventCallbacks, state, eventTypes, dragHoldTimeouts, doubleClickTimeouts,
                  moveListeners, upListeners, mounted >>

\* ----------------------------------------------------- timeout callbacks
Due(t) == t.left <= 0

mouseHoldTimeout(i) ==
  /\ i \in DOMAIN mouseHoldTimeouts
  /\ Due(mouseHoldTimeouts[i])
  /\ LET w0  == [World(state, << >>) EXCEPT
                   !.hold  = RemoveAt(@, i),
                   !.leave = @ \ {mouseHoldTimeouts[i].target}]
         new == [state EXCEPT !.mouseHold = [isHeld |-> TRUE]]
     IN Commit(SetState(new, eventTypes, w0), "holdTimeout")
  /\ UNCHANGED << hookVars, cfg, args, setup, eventCallbacks, eventTypes, mounted, hist >>

dragHoldTimeout(i) ==
  /\ i \in DOMAIN dragHoldTimeouts
  /\ Due(dragHoldTimeouts[i])
  /\ LET w0  == [World(state, << >>) EXCEPT !.dragHold = RemoveAt(@, i)]
         new == [state EXCEPT !.mouseDragHold = [isDragHeld |-> TRUE]]
     IN Commit(SetState(new, eventTypes, w0), "dragHoldTimeout")
  /\ UNCHANGED << hookVars, cfg, args, setup, eventCallbacks, eventTypes, mounted, hist >>

\* the double click timeout callback without its reset of click
doubleClickTimeoutNoReset(i) ==
  /\ i \in DOMAIN doubleClickTimeouts
  /\ Due(doubleClickTimeouts[i])
  /\ LET w0 == [World(state, << "onSingleClick" >>) EXCEPT
                  !.dbl = RemoveAt(@, i), !.by = doubleClickTimeouts[i].by]
     IN Commit(SetState(state, eventTypes, w0), "doubleClickTimeout")
  /\ UNCHANGED << hookVars, cfg, args, setup, eventCallbacks, eventTypes, mounted, hist >>

doubleClickTimeout(i) ==
  /\ i \in DOMAIN doubleClickTimeouts
  /\ Due(doubleClickTimeouts[i])
  /\ LET w0  == [World(state, << "onSingleClick" >>) EXCEPT
                   !.dbl = RemoveAt(@, i), !.by = doubleClickTimeouts[i].by]
         new == [state EXCEPT !.click = ClickReset]
     IN Commit(SetState(new, eventTypes, w0), "doubleClickTimeout")
  /\ UNCHANGED << hookVars, cfg, args, setup, eventCallbacks, eventTypes, mounted, hist >>

\* ------------------------------------------------------------- unmount
\* No effect of the hook returns a cleanup: the timeouts stay pending and
\* the listeners stay where they are.
unmount ==
  /\ mounted
  /\ mounted' = FALSE
  /\ lastOp' = "unmount"
  /\ emitted' = << >>
  /\ calledWith' = Null
  /\ UNCHANGED << hookVars, cfg, args, setup, eventCallbacks, state, eventTypes, mouseHoldTimeouts, dragHoldTimeouts,
                  doubleClickTimeouts, moveListeners, upListeners, leaveListeners, hist >>

\* -------------------------------------------------------------- render
\* The component renders again and hands the hook a new eventCallbacks
\* object.  No dependency of an effect changed: the timeouts that are
\* pending keep the closures they were set with.
render ==
  /\ mounted
  /\ eventCallbacks < MaxRenders
  /\ eventCallbacks' = eventCallbacks + 1
  /\ lastOp' = "render"
  /\ emitted' = << >>
  /\ calledWith' = Null
  /\ UNCHANGED << hookVars, cfg, args, setup, state, eventTypes, mouseHoldTimeouts, dragHoldTimeouts,
                  doubleClickTimeouts, moveListeners, upListeners, leaveListeners,
                  mounted, hist >>

\* ------------------------------------------------------------- the clock
Overdue(q) == \E i \in DOMAIN q : q[i].left + MaxLate <= 0

Elapse(q) == [i \in DOMAIN q |-> [q[i] EXCEPT !.left = @ - 1]]

Tick ==
  /\ ~Overdue(mouseHoldTimeouts)
  /\ ~Overdue(dragHoldTimeouts)
  /\ ~Overdue(doubleClickTimeouts)
  /\ state' = [state EXCEPT !.mouseDown.time = Older(@, MaxAge),
                            !.click.time = Older(@, ClickAge)]
  /\ hist' = [hist EXCEPT !.qual = IF @ = Null \/ @ >= doubleClickDuration THEN Null ELSE @ + 1]
  /\ mouseHoldTimeouts' = Elapse(mouseHoldTimeouts)
  /\ dragHoldTimeouts' = Elapse(dragHoldTimeouts)
  /\ doubleClickTimeouts' = Elapse(doubleClickTimeouts)
  /\ lastOp' = "tick"
  /\ emitted' = << >>
  /\ calledWith' = Null
  /\ UNCHANGED << hookVars, cfg, args, setup, eventCallbacks, eventTypes, moveListeners, upListeners, leaveListeners, mounted >>

\* --------------------------------------------- first and later renders
\* the first call of the hook, with the arguments args
firstRender ==
  /\ ~setup.rendered
  /\ setup' = Render(args, {})
  /\ lastOp' = "firstRender"
  /\ emitted' = << >>
  /\ calledWith' = Null
  /\ UNCHANGED << hookVars, cfg, args, eventCallbacks, state, eventTypes, mouseHoldTimeouts,
                  dragHoldTimeouts, doubleClickTimeouts, moveListeners, upListeners,
                  leaveListeners, mounted, hist >>

\* a later call with other targets; the targets effect has no dependency
\* list and runs after every render that did not end in an exception
laterRender(targets) ==
  /\ setup.rendered
  /\ ~setup.threw
  /\ targets # args.targets
  /\ args' = [args EXCEPT !.targets = targets]
  /\ setup' = Render(args', setup.listening)
  /\ lastOp' = "laterRender"
  /\ emitted' = << >>
  /\ calledWith' = Null
  /\ UNCHANGED << hookVars, cfg, eventCallbacks, state, eventTypes, mouseHoldTimeouts,
                  dragHoldTimeouts, doubleClickTimeouts, moveListeners, upListeners,
                  leaveListeners, mounted, hist >>

(***************************************************************************)
(* The other hooks.  Each is modelled with the component that calls it:    *)
(* an action is a render of that component with the hook's arguments,      *)
(* together with the effects that run after it, or a task that calls what  *)
(* the hook returned.                                                      *)
(***************************************************************************)

\* ---------------------------------------------------------- useDebounce
DebounceValues == {0, 1, 2}
Delays         == {1, 2}
\* ages stop growing at the longest delay
MaxStable == CHOOSE d \in Delays : \A e \in Delays : e <= d

\* the effect without the cleanup of its previous run
DebounceEffectNoCleanup(q, v, d) ==
  SetTimeout(q, [left |-> d, ref |-> TRUE, value |-> v])

\* the effect of a render whose value or delay changed: the cleanup of the
\* previous run clears its handler, then setTimeout(..., delay)
DebounceEffect(q, v, d) ==
  SetTimeout(ClearTimeout(q), [left |-> d, ref |-> TRUE, value |-> v])

\* the first render with value v and delay d, and its effect;
\*   stable   ticks since value or delay last changed
\*   changes  renders with a new value or delay so far
DebounceMount(v, d) ==
  [ value |-> v, delay |-> d, debouncedValue |-> v,
    timeouts |-> DebounceEffect(<< >>, v, d),
    mounted |-> TRUE, stable |-> 0, changes |-> 0 ]

\* a render with another value or delay
useDebounce(v, d) ==
  /\ debounce.mounted
  /\ debounce.changes < MaxChanges
  /\ << v, d >> # << debounce.value, debounce.delay >>
  /\ debounce' = [debounce EXCEPT !.value = v, !.delay = d,
                                  !.timeouts = DebounceEffect(@, v, d),
                                  !.stable = 0, !.changes = @ + 1]
  /\ UNCHANGED << mouseVars, previous, dependent, updated, async, force >>

\* the timeout callback: setDebouncedValue(value) with the value of the
\* render that set the timeout
debounceTimeout(i) ==
  /\ i \in DOMAIN debounce.timeouts
  /\ Due(debounce.timeouts[i])
  /\ debounce' = [debounce EXCEPT
                    !.timeouts = RemoveAt(@, i),
                    !.debouncedValue = IF debounce.mounted
                                       THEN debounce.timeouts[i].value ELSE @]
  /\ UNCHANGED << mouseVars, previous, dependent, updated, async, force >>

\* the component unmounts: the cleanup of the last effect run
debounceUnmount ==
  /\ debounce.mounted
  /\ debounce' = [debounce EXCEPT !.mounted = FALSE, !.timeouts = ClearTimeout(@)]
  /\ UNCHANGED << mouseVars, previous, dependent, updated, async, force >>

debounceTick ==
  /\ ~Overdue(debounce.timeouts)
  /\ debounce' = [debounce EXCEPT !.timeouts = Elapse(@),
                                  !.stable = IF @ < MaxStable THEN @ + 1 ELSE @]
  /\ UNCHANGED << mouseVars, previous, dependent, updated, async, force >>

\* ---------------------------------------------------------- usePrevious
HookValues == {0, 1, 2, 3}

\* useEffect(() => { ref.current = value; }, [value]) after a render with
\* value v, when the render before it had value was
PreviousEffect(ref, was, v) == IF v # was THEN v ELSE ref

\* the first render: useRef() is undefined, then the effect runs;
\*   returned  what the last render returned
\*   before    the value the argument had before its most recent change
\*   updates   renders after the first
PreviousMount(v) ==
  [ value |-> v, ref |-> v, returned |-> Undefined, before |-> Undefined, updates |-> 0 ]

\* a later render with value v: return ref.current, then the effect
usePrevious(v) ==
  /\ previous.updates < MaxUpdates
  /\ previous' = [ value |-> v,
                   ref |-> PreviousEffect(previous.ref, previous.value, v),
                   returned |-> previous.ref,
                   before |-> IF v # previous.value THEN previous.value
                                                   ELSE previous.before,
                   updates |-> previous.updates + 1 ]
  /\ UNCHANGED << mouseVars, debounce, dependent, updated, async, force >>

\* ----------------------------------------------------- useDependentState
\* what a render returns as the value: defaultState when usePrevious of the
\* dependency differs from the dependency, the useState value otherwise
DependentValue(prevDep, dep, default, value) ==
  IF prevDep # dep THEN default ELSE value

\* the first render;
\*   value     the useState value
\*   ref       the ref of usePrevious(dependencyValue), after its effect
\*   returned  the value the last render returned
\*   reset     the dependency has changed and setValue was not called since
DependentMount(dep, default) ==
  [ dependencyValue |-> dep, defaultState |-> default, value |-> default,
    ref |-> dep, returned |-> DependentValue(Undefined, dep, default, default),
    reset |-> FALSE, updates |-> 0 ]

\* a later render with dependency dep and default state default
useDependentState(dep, default) ==
  /\ dependent.updates < MaxUpdates
  /\ dependent' = [dependent EXCEPT
                     !.dependencyValue = dep, !.defaultState = default,
                     !.ref = PreviousEffect(@, dependent.dependencyValue, dep),
                     !.returned = DependentValue(dependent.ref, dep, default,
                                                 dependent.value),
                     !.reset = @ \/ dep # dependent.dependencyValue,
                     !.updates = @ + 1]
  /\ UNCHANGED << mouseVars, debounce, previous, updated, async, force >>

\* setValue(v) and, when v is another value, the render it causes
setValue(v) ==
  /\ dependent.updates < MaxUpdates
  /\ dependent' = [dependent EXCEPT
                     !.value = v,
                     !.returned = IF v = dependent.value THEN @
                                  ELSE DependentValue(dependent.ref,
                                         dependent.dependencyValue,
                                         dependent.defaultState, v),
                     !.reset = FALSE,
                     !.updates = @ + 1]
  /\ UNCHANGED << mouseVars, debounce, previous, updated, async, force >>

\* ------------------------- useValuesUpdated, useValueUpdatedWithPrevious
\* withValue: a value, or undefined when the caller passes none
WithValues == HookValues \cup {Undefined}

\* useValuesUpdated's effect, which runs after the first render and after a
\* render in which a watched value changed: the number of calls of the
\* handler and the ref afterwards
ValuesUpdatedEffect(isSubsequentRender, ran) ==
  [ calls |-> IF ran /\ isSubsequentRender THEN 1 ELSE 0,
    isSubsequentRender |-> isSubsequentRender \/ ran ]

\* a render of useValueUpdatedWithPrevious(handler, value, withValue) after
\* a render with the arguments in was (first is TRUE for the first render):
\* prevValue = usePrevious(withValue || value), then the two effects;
\*   handled      calls of the handler by this render
\*   handledWith  the argument of the call
\*   changed      value differs from the render before
\*   expected     what withValue, or value when there was no withValue, was
\*                in the render before
ValueUpdatedWithPrevious(was, first, value, withValue) ==
  LET prevValue == IF first THEN Undefined ELSE was.ref
      ran       == first \/ value # was.value
      effect    == ValuesUpdatedEffect(~first /\ was.isSubsequentRender, ran)
  IN  [ value |-> value, withValue |-> withValue,
        ref |-> IF first THEN OrElse(withValue, value)
                ELSE PreviousEffect(was.ref, OrElse(was.withValue, was.value),
                                    OrElse(withValue, value)),
        isSubsequentRender |-> effect.isSubsequentRender,
        handled |-> effect.calls,
        handledWith |-> IF effect.calls > 0 THEN prevValue ELSE Undefined,
        changed |-> ~first /\ value # was.value,
        expected |-> IF first THEN Undefined
                     ELSE IF was.withValue # Undefined THEN was.withValue
                     ELSE was.value,
        updates |-> IF first THEN 0 ELSE was.updates + 1 ]

\* the first render
UpdatedMount(value, withValue) ==
  ValueUpdatedWithPrevious([ref |-> Undefined], TRUE, value, withValue)

\* a later render
useValueUpdatedWithPrevious(value, withValue) ==
  /\ updated.updates < MaxUpdates
  /\ updated' = ValueUpdatedWithPrevious(updated, FALSE, value, withValue)
  /\ UNCHANGED << mouseVars, debounce, previous, dependent, async, force >>

\* --------------------------------------------------------- useAsyncState
\* the first render and its two effects: isMounted.current = true, and
\* resolveState.current is undefined;
\*   resolveState  the promise whose resolve the ref holds, 0 for undefined
\*   queued        the state of a setState that waits for its render
\*   promises      the promises setAsyncState has returned, in order
AsyncMount(initialState) ==
  [ state |-> initialState, resolveState |-> 0, isMounted |-> TRUE,
    queued |-> Undefined, promises |-> << >> ]

\* resolve(v) of promise i; a settled promise stays as it is
Resolve(promises, i, v) ==
  IF i = 0 \/ promises[i].settled THEN promises
  ELSE [promises EXCEPT ![i] = [@ EXCEPT !.settled = TRUE, !.with = v]]

\* the effect of a render whose state is another one
AsyncEffect(promises, resolveState, st) == Resolve(promises, resolveState, st)

\* setAsyncState(newState): a new promise, whose executor runs at once
setAsyncState(newState) ==
  /\ Len(async.promises) < MaxPromises
  /\ LET promise == Len(async.promises) + 1
         made == Append(async.promises,
                        [set |-> newState, settled |-> FALSE, with |-> Undefined])
     IN  async' = IF async.isMounted
                  THEN [async EXCEPT !.promises = made, !.resolveState = promise,
                                     !.queued = newState]
                  ELSE [async EXCEPT !.promises = made]
  /\ UNCHANGED << mouseVars, debounce, previous, dependent, updated, force >>

\* React processes the queued setState: no render and no effect when the
\* state is the same, else the render and the effect on [state]
asyncRender ==
  /\ async.isMounted
  /\ async.queued # Undefined
  /\ async' = IF async.queued = async.state
               THEN [async EXCEPT !.queued = Undefined]
               ELSE [async EXCEPT !.queued = Undefined, !.state = async.queued,
                                  !.promises = AsyncEffect(@, async.resolveState,
                                                           async.queued)]
  /\ UNCHANGED << mouseVars, debounce, previous, dependent, updated, force >>

\* the component unmounts: the cleanup of the first effect
asyncUnmount ==
  /\ async.isMounted
  /\ async' = [async EXCEPT !.isMounted = FALSE, !.queued = Undefined]
  /\ UNCHANGED << mouseVars, debounce, previous, dependent, updated, force >>

\* -------------------------------------------------------- useForceUpdate
\* the updater without the remainder
NextValueNoWrap(value) == value + 1

\* value => (value + 1) % 32
NextValue(value) == (value + 1) % 32

\* the first render: useState(0);
\*   renders  renders after the first
\*   calls    calls of the function the hook returned
ForceMount == [ value |-> 0, renders |-> 0, calls |-> 0 ]

\* a call of the returned function: setValue with the updater, and the
\* render React makes when the state is another one
forceUpdate ==
  /\ force.calls < MaxCalls
  /\ force' = [ value |-> NextValue(force.value),
                renders |-> IF NextValue(force.value) # force.value
                            THEN force.renders + 1 ELSE force.renders,
                calls |-> force.calls + 1 ]
  /\ UNCHANGED << mouseVars, debounce, previous, dependent, updated, async >>

\* ------------------------------------------------- hooks that are not used
\* every other hook but the one named, mounted and left alone
OtherHooks(but) ==
  /\ IF but = "debounce" THEN TRUE ELSE debounce = DebounceMount(0, 1)
  /\ IF but = "previous" THEN TRUE ELSE previous = PreviousMount(0)
  /\ IF but = "dependent" THEN TRUE ELSE dependent = DependentMount(0, 0)
  /\ IF but = "updated" THEN TRUE ELSE updated = UpdatedMount(0, Undefined)
  /\ IF but = "async" THEN TRUE ELSE async = AsyncMount(0)
  /\ IF but = "force" THEN TRUE ELSE force = ForceMount

\* useMouseEvents with no callback, its component rendered and left alone
MouseEventsUnused ==
  /\ cfg = [onDoubleClickCallback |-> FALSE, onMouseHoldCallback |-> FALSE,
            listenForMoveEvents |-> FALSE, preventDragIfHeld |-> FALSE]
  /\ args = ModelArguments(cfg)
  /\ setup = Render(args, {})
  /\ eventCallbacks = 0
  /\ calledWith = Null
  /\ state = InitialState
  /\ eventTypes = "none"
  /\ mouseHoldTimeouts = << >>
  /\ dragHoldTimeouts = << >>
  /\ doubleClickTimeouts = << >>
  /\ moveListeners = {}
  /\ upListeners = {}
  /\ leaveListeners = {}
  /\ mounted = TRUE
  /\ lastOp = "init"
  /\ emitted = << >>
  /\ hist = [left |-> FALSE, again |-> FALSE, drags |-> << >>, qual |-> Null]

\* ----------------------------------------------------- the specification
Init ==
  /\ cfg \in Configs
  /\ args = ModelArguments(cfg)
  /\ setup = Render(args, {})
  /\ eventCallbacks = 0
  /\ calledWith = Null
  /\ state = InitialState
  /\ eventTypes = "none"
  /\ mouseHoldTimeouts = << >>
  /\ dragHoldTimeouts = << >>
  /\ doubleClickTimeouts = << >>
  /\ moveListeners = {}
  /\ upListeners = {}
  /\ leaveListeners = {}
  /\ mounted = TRUE
  /\ lastOp = "init"
  /\ emitted = << >>
  /\ hist = [left |-> FALSE, again |-> FALSE, drags |-> << >>, qual |-> Null]
  /\ OtherHooks("none")

Next ==
  \/ \E t \in Targets, xy \in DownCoords : onMouseDown("mouse", 0, t, xy)
  \/ \E t \in Elements, xy \in UpCoords : onMouseUp("mouse", t, xy)
  \/ \E xy \in Coords : onMouseMove("mouse", xy)
  \/ \E t \in Targets : onMouseLeave(t)
  \/ \E i \in 1..MaxTimers : mouseHoldTimeout(i)
  \/ \E i \in 1..MaxTimers : dragHoldTimeout(i)
  \/ \E i \in 1..MaxTimers : doubleClickTimeout(i)
  \/ Tick

Spec == Init /\ [][Next]_vars

\* A touch screen: a touchend goes to the element its touch began on, and
\* no mouseleave is dispatched.
NextTouch ==
  \/ \E n \in 1..MaxTouches, t \in Targets, xy \in DownCoords : onMouseDown("touch", n, t, xy)
  \/ \E t \in Targets, xy \in UpCoords : onMouseUp("touch", t, xy)
  \/ \E xy \in Coords : onMouseMove("touch", xy)
  \/ \E i \in 1..MaxTimers : mouseHoldTimeout(i)
  \/ \E i \in 1..MaxTimers : dragHoldTimeout(i)
  \/ \E i \in 1..MaxTimers : doubleClickTimeout(i)
  \/ Tick

SpecTouch == Init /\ [][NextTouch]_vars

\* A device with a mouse and a touch screen: events of both kinds, in any
\* order.  The hook has no double click callback here and sets no double
\* click timeout.
NextMixed ==
  \/ \E t \in Targets, xy \in DownCoords : onMouseDown("mouse", 0, t, xy)
  \/ \E n \in 1..MaxTouches, t \in Targets, xy \in DownCoords : onMouseDown("touch", n, t, xy)
  \/ \E k \in Kinds, t \in Targets, xy \in UpCoords : onMouseUp(k, t, xy)
  \/ \E k \in Kinds, xy \in Coords : onMouseMove(k, xy)
  \/ \E t \in Targets : onMouseLeave(t)
  \/ \E i \in 1..MaxTimers : mouseHoldTimeout(i)
  \/ \E i \in 1..MaxTimers : dragHoldTimeout(i)
  \/ Tick

\* hold and drag callbacks supplied, drags allowed after a hold
InitMixed ==
  /\ Init
  /\ cfg = [onDoubleClickCallback |-> FALSE, onMouseHoldCallback |-> TRUE,
            listenForMoveEvents |-> TRUE, preventDragIfHeld |-> FALSE]

SpecMixed == InitMixed /\ [][NextMixed]_vars

NextDetach == Next \/ unmount

SpecDetach == Init /\ [][NextDetach]_vars

NextRender == Next \/ render

\* The hook before its first call, for any arguments
InitSetup ==
  /\ cfg = [onDoubleClickCallback |-> FALSE, onMouseHoldCallback |-> FALSE,
            listenForMoveEvents |-> FALSE, preventDragIfHeld |-> FALSE]
  /\ args \in Arguments
  /\ setup = NotRendered
  /\ eventCallbacks = 0
  /\ calledWith = Null
  /\ state = InitialState
  /\ eventTypes = "none"
  /\ mouseHoldTimeouts = << >>
  /\ dragHoldTimeouts = << >>
  /\ doubleClickTimeouts = << >>
  /\ moveListeners = {}
  /\ upListeners = {}
  /\ leaveListeners = {}
  /\ mounted = TRUE
  /\ lastOp = "init"
  /\ emitted = << >>
  /\ hist = [left |-> FALSE, again |-> FALSE, drags |-> << >>, qual |-> Null]
  /\ OtherHooks("none")

NextSetup ==
  \/ firstRender
  \/ \E targets \in TargetsInputs : laterRender(targets)

SpecSetup == InitSetup /\ [][NextSetup]_vars

SpecRender == Init /\ [][NextRender]_vars

\* useDebounce: time passes, and a timeout that is due runs
InitDebounce ==
  /\ MouseEventsUnused
  /\ OtherHooks("debounce")
  /\ \E v \in DebounceValues, d \in Delays : debounce = DebounceMount(v, d)

NextDebounce ==
  \/ \E v \in DebounceValues, d \in Delays : useDebounce(v, d)
  \/ \E i \in 1..MaxTimers : debounceTimeout(i)
  \/ debounceUnmount
  \/ debounceTick

SpecDebounce ==
  /\ InitDebounce
  /\ [][NextDebounce]_vars
  /\ WF_vars(debounceTick)
  /\ WF_vars(\E i \in 1..MaxTimers : debounceTimeout(i))

\* usePrevious: a component that renders with any value, again and again
InitPrevious ==
  /\ MouseEventsUnused
  /\ OtherHooks("previous")
  /\ \E v \in HookValues : previous = PreviousMount(v)

NextPrevious == \E v \in HookValues : usePrevious(v)

SpecPrevious == InitPrevious /\ [][NextPrevious]_vars

\* useDependentState: renders with any dependency, calls of setValue
InitDependent ==
  /\ MouseEventsUnused
  /\ OtherHooks("dependent")
  /\ \E dep \in HookValues, default \in HookValues :
        dependent = DependentMount(dep, default)

NextDependent ==
  \/ \E dep \in HookValues, default \in HookValues : useDependentState(dep, default)
  \/ \E v \in HookValues : setValue(v)

SpecDependent == InitDependent /\ [][NextDependent]_vars

\* useValueUpdatedWithPrevious: renders with any value and withValue
InitUpdated ==
  /\ MouseEventsUnused
  /\ OtherHooks("updated")
  /\ \E v \in HookValues, w \in WithValues : updated = UpdatedMount(v, w)

NextUpdated ==
  \E v \in HookValues, w \in WithValues : useValueUpdatedWithPrevious(v, w)

SpecUpdated == InitUpdated /\ [][NextUpdated]_vars

\* useAsyncState: calls of setAsyncState; a queued update is rendered
InitAsync ==
  /\ MouseEventsUnused
  /\ OtherHooks("async")
  /\ \E v \in HookValues : async = AsyncMount(v)

NextAsync ==
  \/ \E v \in HookValues : setAsyncState(v)
  \/ asyncRender
  \/ asyncUnmount

SpecAsync == InitAsync /\ [][NextAsync]_vars /\ WF_vars(asyncRender)

\* useForceUpdate: the returned function is called again and again
InitForce ==
  /\ MouseEventsUnused
  /\ OtherHooks("force")
  /\ force = ForceMount

NextForce == forceUpdate

SpecForce == InitForce /\ [][NextForce]_vars

TypeOK ==
  /\ cfg \in Configs
  /\ state.mouseDown.isDown \in BOOLEAN
  /\ state.click.count \in 0..MaxCount
  /\ eventTypes \in Kinds \cup {"none"}
  /\ moveListeners \subseteq Kinds
  /\ upListeners \subseteq Kinds
  /\ leaveListeners \subseteq Targets
  /\ mounted \in BOOLEAN
  /\ eventCallbacks \in 0..MaxRenders
  /\ calledWith \in 0..MaxRenders \cup {Null}
  /\ state.mouseDown.time \in 0..MaxAge \cup {Null}
  /\ state.click.time \in 0..MaxAge \cup {Null}

(***************************************************************************)
(* Vocabulary of the properties                                            *)
(***************************************************************************)
Has(out, c)     == c \in Range(out)
CountOf(out, c) == Cardinality({i \in DOMAIN out : out[i] = c})
Before(out, a, b) ==
  \E i, j \in DOMAIN out : i < j /\ out[i] = a /\ out[j] = b

HoldDragCallbacks ==
  {"onMouseHold", "onMouseHoldEnd", "onDragStart", "onDrag", "onDragEnd",
   "onDragHold", "onDragHoldEnd"}
ClickCallbacks == {"onSingleClick", "onDoubleClick"}

\* the step is an up event handled while a pointer is down
UpStep == lastOp' = "up" /\ state.mouseDown.isDown

\* the up of UpStep qualifies as a click: released over the pressed element,
\* with the session neither held nor dragged
QualifyingUp ==
  /\ UpStep
  /\ ~state.mouseHold.isHeld
  /\ ~state.mouseDrag.isDragged
  /\ state'.mouseDown.nativeEvent.target = state.mouseDown.nativeEvent.target

\* the step registers a click: the count goes up by one, or the click is
\* counted and emitted within the same step
ClickRegistered ==
  \/ state'.click.count = state.click.count + 1
  \/ \E c \in ClickCallbacks : Has(emitted', c)

(***************************************************************************)
(* C1: a session that is one down followed by an up, with no move between  *)
(* them and less than mouseHoldDuration from the down to the up, registers *)
(* exactly one click; no hold or drag callback is invoked during the       *)
(* session, and none is left to be invoked after it.  Stated for the up    *)
(* that comes over the pressed element.                                    *)
(***************************************************************************)
C1_QuickPressIsOneClick ==
  [][ ( /\ UpStep
        /\ ~hist.again
        /\ ~state.mouseDrag.isDragged
        /\ state.mouseDown.time < mouseHoldDuration
        /\ state'.mouseDown.nativeEvent.target = state.mouseDown.nativeEvent.target )
      => /\ ClickRegistered
         /\ ~state.mouseHold.isHeld
         /\ \A c \in HoldDragCallbacks : ~Has(emitted', c)
         /\ \A i \in DOMAIN mouseHoldTimeouts' : ~mouseHoldTimeouts'[i].ref
    ]_vars

(***************************************************************************)
(* C2: with a hold callback, a pointer that went down and has neither      *)
(* moved nor left is held from mouseHoldDuration after the down on: until  *)
(* then the hold timeout of the press is pending and due at exactly that   *)
(* time, and its callback sets isHeld and invokes onMouseHold.  The up     *)
(* that follows invokes onMouseHoldEnd once, leaves the click count as it  *)
(* was, invokes no click callback and starts no double click timeout.      *)
(***************************************************************************)
Stationary ==
  /\ cfg.onMouseHoldCallback
  /\ state.mouseDown.isDown
  /\ ~state.mouseDrag.isDragged
  /\ ~hist.left

\* t is the hold timeout of the press: due mouseHoldDuration after the down,
\* after the first one when a second down came during the session
HoldTimeoutDue(t) ==
  /\ t.ref
  /\ t.left <= mouseHoldDuration - state.mouseDown.time
  /\ (~hist.again /\ state.mouseDown.time < MaxAge)
       => t.left = mouseHoldDuration - state.mouseDown.time

C2_HeldAfterHoldDuration ==
  /\ [](Stationary /\ ~state.mouseHold.isHeld
          => \E i \in DOMAIN mouseHoldTimeouts : HoldTimeoutDue(mouseHoldTimeouts[i]))
  /\ [][ /\ (lastOp' = "holdTimeout" /\ Stationary /\ ~state.mouseHold.isHeld)
            => (state'.mouseHold.isHeld /\ emitted' = << "onMouseHold" >>)
         /\ (UpStep /\ Stationary /\ state.mouseHold.isHeld)
            => /\ CountOf(emitted', "onMouseHoldEnd") = 1
               /\ state'.click.count = state.click.count
               /\ \A c \in ClickCallbacks : ~Has(emitted', c)
               /\ doubleClickTimeouts' = doubleClickTimeouts
       ]_vars

C2_Witness ==
  /\ lastOp = "up"
  /\ emitted = << "onMouseUp", "onMouseHoldEnd" >>
  /\ cfg.onMouseHoldCallback
  /\ ~hist.left
  /\ hist.drags = << >>

(***************************************************************************)
(* C3: a qualifying up that comes at most doubleClickDuration after the    *)
(* previous qualifying up, with no move between the two, makes the pair a  *)
(* double click: onDoubleClick is invoked once, onSingleClick is not, and  *)
(* no double click timeout stays behind to invoke it later.                *)
(***************************************************************************)
C3_TwoUpsAreOneDoubleClick ==
  [][ (QualifyingUp /\ hist.qual # Null)
      => /\ CountOf(emitted', "onDoubleClick") = 1
         /\ ~Has(emitted', "onSingleClick")
         /\ doubleClickTimeouts' = << >>
    ]_vars

(***************************************************************************)
(* C3, amended: with a double click callback, a qualifying up that comes   *)
(* while the double click timeout set by the previous qualifying up is     *)
(* still pending (the click count is 1) and at most doubleClickDuration    *)
(* after the previous up invokes onDoubleClick once and onSingleClick not  *)
(* at all, cancels that timeout and sets the count to 0.                   *)
(***************************************************************************)
C3_SecondUpBeforeTimeout ==
  [][ ( /\ QualifyingUp
        /\ cfg.onDoubleClickCallback
        /\ state.click.count = 1
        /\ state.click.time <= doubleClickDuration )
      => /\ emitted' = << "onMouseUp", "onDoubleClick" >>
         /\ state'.click.count = 0
         /\ doubleClickTimeouts' = << >>
    ]_vars

C3_Witness ==
  /\ lastOp = "up"
  /\ emitted = << "onMouseUp", "onDoubleClick" >>
  /\ cfg.onDoubleClickCallback
  /\ state.click.count = 0

(***************************************************************************)
(* C4: a qualifying up that finds the count at 0 is answered by exactly    *)
(* one onSingleClick unless another qualifying up follows in time: with a  *)
(* double click callback the count becomes 1 and one timeout is set for    *)
(* doubleClickDuration, which stays pending as long as the count is not 0  *)
(* and whose callback invokes onSingleClick alone and sets the count to 0; *)
(* without one, onSingleClick is invoked at once and the count is 0 again. *)
(* onDoubleClick is invoked by a qualifying up only.                       *)
(***************************************************************************)
C4_SingleClickAfterSilence ==
  /\ [](IF state.click.count = 0
        THEN doubleClickTimeouts = << >>
        ELSE /\ Len(doubleClickTimeouts) = 1
             /\ doubleClickTimeouts[1].left <= doubleClickDuration)
  /\ [][ /\ (QualifyingUp /\ state.click.count = 0 /\ cfg.onDoubleClickCallback)
            => /\ state'.click.count = 1
               /\ doubleClickTimeouts' = << [left |-> doubleClickDuration, ref |-> TRUE,
                                          by |-> eventCallbacks] >>
               /\ \A c \in ClickCallbacks : ~Has(emitted', c)
         /\ (QualifyingUp /\ state.click.count = 0 /\ ~cfg.onDoubleClickCallback)
            => /\ CountOf(emitted', "onSingleClick") = 1
               /\ ~Has(emitted', "onDoubleClick")
               /\ state'.click.count = 0
         /\ lastOp' = "doubleClickTimeout"
            => /\ emitted' = << "onSingleClick" >>
               /\ state'.click.count = 0
               /\ doubleClickTimeouts' = << >>
         /\ Has(emitted', "onDoubleClick") => QualifyingUp
       ]_vars

C4_Witness ==
  /\ lastOp = "doubleClickTimeout"
  /\ emitted = << "onSingleClick" >>
  /\ state.click.count = 0
  /\ doubleClickTimeouts = << >>

(***************************************************************************)
(* C5: the up of a session whose pointer was moved ends a run of calls     *)
(* onDragStart, then onDrag at least once, then onDragEnd, and leaves the  *)
(* click count as it was.                                                  *)
(***************************************************************************)
C5_DragCallsInOrder ==
  [][ (UpStep /\ state.mouseDrag.isDragged)
      => /\ hist'.drags = << "onDragStart", "onDrag", "onDragEnd" >>
         /\ state'.click.count = state.click.count
    ]_vars

(***************************************************************************)
(* C6: while a drag is not drag-held a drag hold timeout is pending; its   *)
(* callback sets isDragHeld and invokes onDragHold.  A move that comes     *)
(* while the drag is held invokes onDragHoldEnd and then onDrag, each      *)
(* once, and leaves one drag hold timeout, set for dragHoldDuration.       *)
(***************************************************************************)
Dragging == state.mouseDown.isDown /\ state.mouseDrag.isDragged

C6_DragHoldThenMove ==
  /\ [](Dragging /\ ~state.mouseDragHold.isDragHeld
          => \E i \in DOMAIN dragHoldTimeouts : dragHoldTimeouts[i].ref)
  /\ [][ /\ (lastOp' = "dragHoldTimeout" /\ Dragging /\ ~state.mouseDragHold.isDragHeld)
            => (state'.mouseDragHold.isDragHeld /\ emitted' = << "onDragHold" >>)
         /\ (lastOp' = "move" /\ Dragging /\ state.mouseDragHold.isDragHeld)
            => /\ emitted' = << "onDragHoldEnd", "onDrag" >>
               /\ dragHoldTimeouts' = << [left |-> dragHoldDuration, ref |-> TRUE] >>
       ]_vars

(***************************************************************************)
(* C7: an up that comes while isDragged and isDragHeld are both true       *)
(* invokes onDragHoldEnd before onDragEnd, each once, and is no click.     *)
(***************************************************************************)
UpInDragHeld ==
  UpStep /\ state.mouseDrag.isDragged /\ state.mouseDragHold.isDragHeld

EndsDragOnce ==
  /\ CountOf(emitted', "onDragHoldEnd") = 1
  /\ CountOf(emitted', "onDragEnd") = 1
  /\ state'.click.count = state.click.count
  /\ \A c \in ClickCallbacks : ~Has(emitted', c)

C7_DragHoldEndThenDragEnd ==
  [][ UpInDragHeld
      => (EndsDragOnce /\ Before(emitted', "onDragHoldEnd", "onDragEnd")) ]_vars

(***************************************************************************)
(* C7, amended: an up that comes while isDragged and isDragHeld are both   *)
(* true invokes onDragEnd before onDragHoldEnd, each once, and is no       *)
(* click.                                                                  *)
(***************************************************************************)
C7_DragEndThenDragHoldEnd ==
  [][ UpInDragHeld
      => (EndsDragOnce /\ Before(emitted', "onDragEnd", "onDragHoldEnd")) ]_vars

C7_Witness ==
  /\ lastOp = "up"
  /\ Has(emitted, "onDragHoldEnd")
  /\ Has(emitted, "onDragEnd")
  /\ ~state.mouseDown.isDown

(***************************************************************************)
(* C8: mouseHold.isHeld and mouseDrag.isDragged are never both true.       *)
(***************************************************************************)
C8_HeldExcludesDragged ==
  ~(state.mouseHold.isHeld /\ state.mouseDrag.isDragged)

C10_TimersEndWithSession ==
  /\ (lastOp = "up" /\ ~state.mouseDown.isDown)
       => (mouseHoldTimeouts = << >> /\ dragHoldTimeouts = << >>)
  /\ lastOp \in {"holdTimeout", "dragHoldTimeout"} => state.mouseDown.isDown

(***************************************************************************)
(* C11: a hold timeout callback that runs during a session runs no sooner  *)
(* than mouseHoldDuration after the down of that session: the hold timeout *)
(* of an earlier session sets no isHeld and invokes no onMouseHold in a    *)
(* later one.  Stated for sessions with a single down.                     *)
(***************************************************************************)
C11_HoldOnlyAfterOwnDuration ==
  [][ (lastOp' = "holdTimeout" /\ state.mouseDown.isDown /\ ~hist.again)
      => state.mouseDown.time >= mouseHoldDuration ]_vars

(***************************************************************************)
(* C12: under each of the keys hold, dragHold and doubleClick at most one  *)
(* timeout is pending.                                                     *)
(***************************************************************************)
C12_OneTimeoutPerKey ==
  /\ Len(mouseHoldTimeouts) <= 1
  /\ Len(dragHoldTimeouts) <= 1
  /\ Len(doubleClickTimeouts) <= 1

(***************************************************************************)
(* C14: a qualifying up that finds the click count at 1 more than          *)
(* doubleClickDuration after the previous click invokes no onDoubleClick,  *)
(* leaves the count at 1 and leaves one double click timeout pending, set  *)
(* for doubleClickDuration from this up.                                   *)
(***************************************************************************)
C14_StaleSecondClickStartsAnew ==
  [][ ( /\ QualifyingUp
        /\ state.click.count = 1
        /\ state.click.time > doubleClickDuration )
      => /\ ~Has(emitted', "onDoubleClick")
         /\ state'.click.count = 1
         /\ doubleClickTimeouts' = << [left |-> doubleClickDuration, ref |-> TRUE,
                                          by |-> eventCallbacks] >>
    ]_vars

(***************************************************************************)
(* C15: after every task that invoked onSingleClick or onDoubleClick the   *)
(* click count is 0 and click.time is null; the qualifying up that finds   *)
(* the count at 0 makes it 1, or, without a double click callback, is a    *)
(* single click of its own that leaves it at 0.                            *)
(***************************************************************************)
C15_CountResetOnEmission ==
  /\ []((\E c \in ClickCallbacks : Has(emitted, c)) => state.click = ClickReset)
  /\ [][ (QualifyingUp /\ state.click.count = 0)
         => IF cfg.onDoubleClickCallback
            THEN state'.click.count = 1
            ELSE state'.click.count = 0 /\ Has(emitted', "onSingleClick")
       ]_vars

C15_Witness ==
  /\ lastOp \in {"up", "doubleClickTimeout"}
  /\ \E c \in ClickCallbacks : Has(emitted, c)
  /\ state.click.count = 0
  /\ state.click.time = Null

(***************************************************************************)
(* C16: the click count is 0, 1 or 2.                                      *)
(***************************************************************************)
C16_CountAtMostTwo ==
  state.click.count \in {0, 1, 2}

(***************************************************************************)
(* C17: without a double click callback every qualifying up invokes        *)
(* onSingleClick once in its own task, after onMouseUp, and leaves the     *)
(* count at 0; no double click timeout is ever pending and onDoubleClick   *)
(* is never invoked.                                                       *)
(***************************************************************************)
C17_SingleClickAtOnce ==
  /\ [](~cfg.onDoubleClickCallback
          => /\ doubleClickTimeouts = << >>
             /\ state.click.count = 0
             /\ ~Has(emitted, "onDoubleClick"))
  /\ [][ (QualifyingUp /\ ~cfg.onDoubleClickCallback)
         => /\ emitted' = << "onMouseUp", "onSingleClick" >>
            /\ state'.click.count = 0
       ]_vars

C17_Witness ==
  /\ ~cfg.onDoubleClickCallback
  /\ lastOp = "up"
  /\ emitted = << "onMouseUp", "onSingleClick" >>
  /\ hist.qual = 0

(***************************************************************************)
(* C18: with preventClickIfPosChange in effect, an up whose position is    *)
(* not that of the down is no click: the click count stays as it was and   *)
(* no click callback is invoked, also when no move was seen.               *)
(***************************************************************************)
PosChanged ==
  \/ state'.mouseDown.nativeEvent.clientX # state.mouseDown.nativeEvent.clientX
  \/ state'.mouseDown.nativeEvent.clientY # state.mouseDown.nativeEvent.clientY

C18_NoClickIfPosChange ==
  [][ (UpStep /\ preventClickIfPosChange /\ PosChanged)
      => /\ state'.click.count = state.click.count
         /\ \A c \in ClickCallbacks : ~Has(emitted', c)
    ]_vars

(***************************************************************************)
(* C19: with preventDragIfHeld, while a pointer is down and held and no    *)
(* drag has begun, no move is handled: isDragged stays false, no drag      *)
(* callback is invoked, and the up invokes onMouseUp and onMouseHoldEnd    *)
(* and nothing else.                                                       *)
(***************************************************************************)
DragCallbacks ==
  {"onDragStart", "onDrag", "onDragEnd", "onDragHold", "onDragHoldEnd"}

C19_HeldIgnoresMoves ==
  [][ ( /\ cfg.preventDragIfHeld
        /\ state.mouseDown.isDown
        /\ state.mouseHold.isHeld
        /\ ~state.mouseDrag.isDragged )
      => /\ lastOp' # "move"
         /\ ~state'.mouseDrag.isDragged
         /\ \A c \in DragCallbacks : ~Has(emitted', c)
         /\ UpStep => emitted' = << "onMouseUp", "onMouseHoldEnd" >>
    ]_vars

(***************************************************************************)
(* C20: once a move has made a session that was not held a drag, isHeld    *)
(* stays false and onMouseHold is not invoked for the rest of the session. *)
(***************************************************************************)
C20_DragCancelsHold ==
  [][ (Dragging /\ ~state.mouseHold.isHeld)
      => (~state'.mouseHold.isHeld /\ ~Has(emitted', "onMouseHold")) ]_vars

(***************************************************************************)
(* C13: once the component is unmounted the timeouts that were pending are *)
(* as good as cancelled: no callback of the hook's user is invoked and the *)
(* state changes no more (its time stamps, kept as ages, still grow older  *)
(* with the clock).                                                        *)
(***************************************************************************)
C13_NothingAfterDetach ==
  [][ ~mounted
      => /\ emitted' = << >>
         /\ lastOp' # "tick" => state' = state
    ]_vars

(***************************************************************************)
(* C21: a down event that arrives while a pointer is already down starts   *)
(* no session: it invokes no callback, sets no hold timeout and leaves     *)
(* state.mouseDown, the target and the time stamp of the session's down,   *)
(* as it was.                                                              *)
(***************************************************************************)
C21_SecondDownChangesNothing ==
  [][ (lastOp' = "down" /\ state.mouseDown.isDown)
      => /\ emitted' = << >>
         /\ mouseHoldTimeouts' = mouseHoldTimeouts
         /\ state'.mouseDown = state.mouseDown
    ]_vars

(***************************************************************************)
(* C22: a touchstart with more than one touch point changes nothing and    *)
(* invokes no callback: isDown, isHeld, isDragged, isDragHeld, the click   *)
(* count, the pending timeouts and the listeners are after it what they    *)
(* were before.                                                            *)
(***************************************************************************)
C22_MultiTouchDownDropped ==
  [][ lastOp' = "downMulti"
      => /\ emitted' = << >>
         /\ state' = state
         /\ mouseHoldTimeouts' = mouseHoldTimeouts
         /\ dragHoldTimeouts' = dragHoldTimeouts
         /\ doubleClickTimeouts' = doubleClickTimeouts
         /\ moveListeners' = moveListeners
         /\ upListeners' = upListeners
         /\ leaveListeners' = leaveListeners
    ]_vars

C22_Witness ==
  /\ lastOp = "downMulti"
  /\ state.mouseDown.isDown
  /\ state.mouseDrag.isDragged
  /\ dragHoldTimeouts # << >>
  /\ state.click.count = 1

(***************************************************************************)
(* C23: initially, and whenever no pointer is down, isHeld, isDragged and  *)
(* isDragHeld are all false.                                               *)
(***************************************************************************)
C23_IdleFlagsFalse ==
  ~state.mouseDown.isDown
    => /\ ~state.mouseHold.isHeld
       /\ ~state.mouseDrag.isDragged
       /\ ~state.mouseDragHold.isDragHeld

(***************************************************************************)
(* C24: without a hold callback no hold timeout is ever set and isHeld is  *)
(* never true, and the up of a session without a move registers a click,   *)
(* however long the pointer stayed down.                                   *)
(***************************************************************************)
NeverHeld ==
  ~cfg.onMouseHoldCallback
    => /\ ~state.mouseHold.isHeld
       /\ mouseHoldTimeouts = << >>
       /\ leaveListeners = {}

C24_NoHoldCallbackAlwaysClick ==
  /\ []NeverHeld
  /\ [][ (UpStep /\ ~cfg.onMouseHoldCallback /\ ~state.mouseDrag.isDragged)
         => ClickRegistered ]_vars

(***************************************************************************)
(* C24, amended: without a hold callback no hold timeout is ever set and   *)
(* isHeld is never true, and the up of a session without a move registers  *)
(* a click when it comes over the pressed element, however long the        *)
(* pointer stayed down.                                                    *)
(***************************************************************************)
C24_NoHoldCallbackClickOnTarget ==
  /\ []NeverHeld
  /\ [][ ( /\ UpStep
           /\ ~cfg.onMouseHoldCallback
           /\ ~state.mouseDrag.isDragged
           /\ state'.mouseDown.nativeEvent.target = state.mouseDown.nativeEvent.target )
         => ClickRegistered ]_vars

C24_Witness ==
  /\ ~cfg.onMouseHoldCallback
  /\ state.mouseDown.isDown
  /\ state.mouseDown.time >= mouseHoldDuration
  /\ ~state.mouseDrag.isDragged
  /\ ~state.mouseHold.isHeld
  /\ ~hist.again

(***************************************************************************)
(* C25: every move handled while a drag is under way invokes onDrag once   *)
(* and leaves one drag hold timeout, set for dragHoldDuration, wherever    *)
(* the pointer is, the position (0, 0) included.                           *)
(***************************************************************************)
C25_EveryMoveDrags ==
  [][ (lastOp' = "move" /\ Dragging)
      => /\ CountOf(emitted', "onDrag") = 1
         /\ dragHoldTimeouts' = << [left |-> dragHoldDuration, ref |-> TRUE] >>
    ]_vars

(***************************************************************************)
(* C26: every callback is taken from the eventCallbacks object the hook    *)
(* was given last before the call: when the component hands the hook new   *)
(* callbacks while a timeout is pending, the call that timeout leads to    *)
(* goes to the new ones.                                                   *)
(***************************************************************************)
C26_CallbackCurrentAtEmission ==
  emitted # << >> => calledWith = eventCallbacks

(***************************************************************************)
(* C27: each option in effect is the value config supplies whenever it     *)
(* supplies one, 0 for a duration and false for a flag included, and       *)
(* otherwise its default: 250 for doubleClickDuration, 750 for             *)
(* mouseHoldDuration and for dragHoldDuration, false for                   *)
(* preventDragIfHeld, and for preventClickIfPosChange true exactly when    *)
(* onDragEndCallback is supplied.  A flag is compared as a condition.      *)
(***************************************************************************)
SuppliedNumber(v, default) == IF v # Undefined THEN v ELSE default
SuppliedFlag(v, default)   == IF v # "undefined" THEN v = "true" ELSE default

C27_SuppliedElseDefault ==
  setup.rendered
    => LET c == args.config
           e == setup.config
       IN /\ e.doubleClickDuration = SuppliedNumber(NumberOf(c, "doubleClickDuration"), 250)
          /\ e.mouseHoldDuration = SuppliedNumber(NumberOf(c, "mouseHoldDuration"), 750)
          /\ e.dragHoldDuration = SuppliedNumber(NumberOf(c, "dragHoldDuration"), 750)
          /\ (e.preventDragIfHeld = "true")
               = SuppliedFlag(FlagOf(c, "preventDragIfHeld"), FALSE)
          /\ (e.preventClickIfPosChange = "true")
               = SuppliedFlag(FlagOf(c, "preventClickIfPosChange"), args.onDragEndCallback)

(***************************************************************************)
(* C28: when the hook is given no valid target (no targets at all, or      *)
(* targets none of which leads to an element, a single one or an array of  *)
(* them) the targets effect reports it, throws nothing and gives no        *)
(* element a down handler, so that no callback can be invoked.             *)
(***************************************************************************)
NoValidTarget(targets) ==
  \/ ~targets.given
  \/ /\ targets.items # << >>
     /\ \A i \in DOMAIN targets.items : targets.items[i].element = "none"

C28_NoValidTargetReported ==
  (setup.rendered /\ NoValidTarget(args.targets))
    => /\ setup.reported
       /\ ~setup.threw
       /\ setup.attached = {}

(***************************************************************************)
(* C29: the calls of each pair onMouseHold / onMouseHoldEnd, onDragStart / *)
(* onDragEnd and onDragHold / onDragHoldEnd alternate, the first of the    *)
(* pair first.  A task invokes the first of a pair once when it turns the  *)
(* flag of the pair (isHeld, isDragged, isDragHeld) from false to true and *)
(* the second once when it turns it from true to false, and neither        *)
(* otherwise: the flag, false at the start, tells whether a first call is  *)
(* still unmatched.  onDragStart is invoked at most once in a session, and *)
(* the up that ends the session leaves the three flags false, so that it   *)
(* invokes the second of every pair still open.                            *)
(***************************************************************************)
Paired(before, after, start, end) ==
  /\ CountOf(emitted', start) = (IF ~before /\ after THEN 1 ELSE 0)
  /\ CountOf(emitted', end) = (IF before /\ ~after THEN 1 ELSE 0)

C29_PairsAlternate ==
  [][ /\ Paired(state.mouseHold.isHeld, state'.mouseHold.isHeld,
                "onMouseHold", "onMouseHoldEnd")
      /\ Paired(state.mouseDrag.isDragged, state'.mouseDrag.isDragged,
                "onDragStart", "onDragEnd")
      /\ Paired(state.mouseDragHold.isDragHeld, state'.mouseDragHold.isDragHeld,
                "onDragHold", "onDragHoldEnd")
      /\ Has(emitted', "onDragStart")
           => (state.mouseDown.isDown /\ ~Has(hist.drags, "onDragStart"))
      /\ UpStep
           => /\ ~state'.mouseHold.isHeld
              /\ ~state'.mouseDrag.isDragged
              /\ ~state'.mouseDragHold.isDragHeld
    ]_vars

C29_Witness ==
  /\ lastOp = "up"
  /\ emitted = << "onMouseUp", "onMouseHoldEnd", "onDragEnd", "onDragHoldEnd" >>
  /\ hist.drags = << "onDragStart", "onDrag", "onDragEnd" >>

(***************************************************************************)
(* C30: a session, from the down that makes isDown true to the up that     *)
(* makes it false, invokes onMouseDown once and onMouseUp once, and they   *)
(* are invoked nowhere else: not by the first render, not by a down that   *)
(* finds a pointer down.  onMouseDown is the first call of the task of     *)
(* the down, and no drag callback is invoked but in a later task of the    *)
(* session; onMouseUp is the first call of the task of the up, before the  *)
(* onMouseHoldEnd, onDragEnd, onDragHoldEnd, onSingleClick or              *)
(* onDoubleClick of that up.                                               *)
(***************************************************************************)
C30_DownAndUpOncePerSession ==
  /\ [](lastOp = "init" => emitted = << >>)
  /\ [][ /\ Paired(state.mouseDown.isDown, state'.mouseDown.isDown,
                   "onMouseDown", "onMouseUp")
         /\ (lastOp' = "down" /\ ~state.mouseDown.isDown)
              => (state'.mouseDown.isDown /\ emitted' = << "onMouseDown" >>)
         /\ UpStep => (~state'.mouseDown.isDown /\ emitted'[1] = "onMouseUp")
         /\ (\E c \in DragCallbacks : Has(emitted', c)) => state.mouseDown.isDown
       ]_vars

C30_Witness ==
  /\ lastOp = "up"
  /\ emitted = << "onMouseUp", "onMouseHoldEnd", "onDragEnd" >>
  /\ ~state.mouseDown.isDown

(***************************************************************************)
(* C31: an up over another element than the one of the session's down is   *)
(* no click, held or dragged or neither: the click count stays as it was   *)
(* and its task invokes neither onSingleClick nor onDoubleClick.           *)
(***************************************************************************)
C31_UpElsewhereIsNoClick ==
  [][ ( /\ UpStep
        /\ state'.mouseDown.nativeEvent.target # state.mouseDown.nativeEvent.target )
      => /\ state'.click.count = state.click.count
         /\ \A c \in ClickCallbacks : ~Has(emitted', c)
    ]_vars

C31_Witness ==
  /\ lastOp = "up"
  /\ state.mouseDown.nativeEvent.target = "B"
  /\ emitted = << "onMouseUp" >>
  /\ state.click.count = 1
  /\ state.click.time = 0

(***************************************************************************)
(* C32: without a drag callback no move event is listened to: isDragged    *)
(* and isDragHeld are never true, no move is handled, so that none clears  *)
(* the hold timeout, and the up that comes over the pressed element        *)
(* registers a click.                                                      *)
(***************************************************************************)
MovesUnseen ==
  ~cfg.listenForMoveEvents
    => /\ ~state.mouseDrag.isDragged
       /\ ~state.mouseDragHold.isDragHeld
       /\ moveListeners = {}
       /\ dragHoldTimeouts = << >>

C32_NoDragCallbackAlwaysClick ==
  /\ []MovesUnseen
  /\ [][ ~cfg.listenForMoveEvents
         => /\ lastOp' # "move"
            /\ ( /\ UpStep
                 /\ state'.mouseDown.nativeEvent.target = state.mouseDown.nativeEvent.target )
               => ClickRegistered
       ]_vars

(***************************************************************************)
(* C32, amended: without a drag callback no move event is listened to:     *)
(* isDragged and isDragHeld are never true, no move is handled, so that    *)
(* none clears the hold timeout, and the up that comes over the pressed    *)
(* element registers a click unless the pointer is held.                   *)
(***************************************************************************)
C32_NoDragCallbackClickUnlessHeld ==
  /\ []MovesUnseen
  /\ [][ ~cfg.listenForMoveEvents
         => /\ lastOp' # "move"
            /\ ( /\ UpStep
                 /\ ~state.mouseHold.isHeld
                 /\ state'.mouseDown.nativeEvent.target = state.mouseDown.nativeEvent.target )
               => ClickRegistered
       ]_vars

C32_Witness ==
  /\ ~cfg.listenForMoveEvents
  /\ cfg.onMouseHoldCallback
  /\ lastOp = "up"
  /\ state.mouseDown.nativeEvent.target = "A"
  /\ state.mouseDown.nativeEvent.clientX = 0
  /\ state.click.count = 1
  /\ hist.qual = 0

(***************************************************************************)
(* C33: a mouseleave of the pressed element that comes while the pointer   *)
(* is down and the hold timeout of the press is pending clears that        *)
(* timeout and changes nothing else: the state, the other timeouts and the *)
(* move and up listeners stay as they were and no callback is invoked.     *)
(* For the rest of the session onMouseHold is not invoked and isHeld stays *)
(* false, and the up that comes over the pressed element without a move    *)
(* registers a click.                                                      *)
(***************************************************************************)
LeftInDown ==
  /\ state.mouseDown.isDown
  /\ hist.left
  /\ ~hist.again

C33_LeaveCancelsHoldOnly ==
  [][ /\ ( /\ lastOp' = "leave"
           /\ state.mouseDown.isDown
           /\ \E i \in DOMAIN mouseHoldTimeouts : mouseHoldTimeouts[i].ref )
         => /\ mouseHoldTimeouts' = ClearTimeout(mouseHoldTimeouts)
            /\ state' = state
            /\ emitted' = << >>
            /\ dragHoldTimeouts' = dragHoldTimeouts
            /\ doubleClickTimeouts' = doubleClickTimeouts
            /\ moveListeners' = moveListeners
            /\ upListeners' = upListeners
      /\ (LeftInDown /\ ~state.mouseHold.isHeld)
         => (~Has(emitted', "onMouseHold") /\ ~state'.mouseHold.isHeld)
      /\ ( /\ UpStep
           /\ LeftInDown
           /\ ~state.mouseDrag.isDragged
           /\ state'.mouseDown.nativeEvent.target = state.mouseDown.nativeEvent.target )
         => ClickRegistered
    ]_vars

(***************************************************************************)
(* C34: the kind of events a session listens to is the kind of the down    *)
(* that began it.  While a pointer is down eventTypes.current stays what   *)
(* that down made it, whatever down event arrives, a touchstart with       *)
(* several touch points included; no up or move handler ends in an         *)
(* exception; and the up of the session removes every move and up          *)
(* listener the session added.                                             *)
(***************************************************************************)
C34_KindFixedByDown ==
  [][ /\ state.mouseDown.isDown
         => /\ eventTypes' = eventTypes
            /\ lastOp' \notin {"upThrew", "moveThrew"}
      /\ (lastOp' = "up" /\ ~state'.mouseDown.isDown)
         => (upListeners' = {} /\ moveListeners' = {})
    ]_vars

(***************************************************************************)
(* C35: useDebounce keeps at most one timeout pending.  A render with a    *)
(* new value or delay leaves the one it sets, for the new delay and the    *)
(* new value, and no other.  The debounced value changes only in a timeout *)
(* callback, and then to the current value, which has not changed for      *)
(* delay or longer.  Once the component is unmounted no timeout is pending *)
(* and the debounced value changes no more.  When the value stops          *)
(* changing, the debounced value of the mounted component ends up equal to *)
(* it.                                                                     *)
(***************************************************************************)
C35_Debounced ==
  /\ [](/\ Len(debounce.timeouts) <= 1
        /\ ~debounce.mounted => debounce.timeouts = << >>)
  /\ [][ /\ debounce'.changes # debounce.changes
            => debounce'.timeouts =
                 << [left |-> debounce'.delay, ref |-> TRUE, value |-> debounce'.value] >>
         /\ debounce'.debouncedValue # debounce.debouncedValue
            => /\ debounce.mounted
               /\ debounce'.timeouts # debounce.timeouts
               /\ debounce'.changes = debounce.changes
               /\ debounce'.debouncedValue = debounce.value
               /\ debounce.stable >= debounce.delay
       ]_vars
  /\ <>[](debounce.mounted => debounce.debouncedValue = debounce.value)

C35_Witness ==
  /\ debounce.mounted
  /\ debounce.changes = MaxChanges
  /\ debounce.debouncedValue = debounce.value
  /\ debounce.debouncedValue # 0
  /\ debounce.timeouts = << >>

(***************************************************************************)
(* C36: usePrevious returns, on every render, the value its argument had   *)
(* before the most recent change of the argument, undefined while the      *)
(* argument has never changed; a render with an unchanged argument returns *)
(* what the render before it returned.                                     *)
(***************************************************************************)
C36_ReturnsValueBeforeLastChange == previous.returned = previous.before

(***************************************************************************)
(* C37: once the dependency value has changed, useDependentState returns   *)
(* defaultState on that render and on every later render, until setValue   *)
(* is called, whatever value was set before the change.                    *)
(***************************************************************************)
C37_ResetUntilSetValue ==
  dependent.reset => dependent.returned = dependent.defaultState

(***************************************************************************)
(* C38: the handler of useValuesUpdated is not called by the first render, *)
(* and a later render calls it once when the watched value differs from    *)
(* the render before and not at all otherwise.  useValueUpdatedWithPrevious*)
(* calls its handler with the value that withValue, or value when no       *)
(* withValue is passed, had in the render before.                          *)
(***************************************************************************)
C38_HandlerOncePerChangeWithPrevious ==
  /\ updated.updates = 0 => updated.handled = 0
  /\ updated.updates > 0 => updated.handled = (IF updated.changed THEN 1 ELSE 0)
  /\ updated.handled > 0 => updated.handledWith = updated.expected

(***************************************************************************)
(* C39: every promise that setAsyncState returns is resolved in the end,   *)
(* with the state its call set: also when the call sets the state the      *)
(* component has, when a second call follows before the render, and when   *)
(* the component is unmounted.                                             *)
(***************************************************************************)
C39_EveryPromiseResolves ==
  \A i \in 1..MaxPromises :
    [](i <= Len(async.promises)
         => <>(/\ i <= Len(async.promises)
               /\ async.promises[i].settled
               /\ async.promises[i].with = async.promises[i].set))

(***************************************************************************)
(* C40: the counter of useForceUpdate stays within 0..31 however often the *)
(* returned function is called, and every call changes it and so causes a  *)
(* render.                                                                 *)
(***************************************************************************)
C40_CounterWrapsAndChanges ==
  /\ [](force.value \in 0..31 /\ force.renders = force.calls)
  /\ [][force'.calls # force.calls
          => /\ force'.value # force.value
             /\ force'.value = (force.value + 1) % 32]_vars

C40_Witness == force.calls > 32 /\ force.value = 0

====
